---- MODULE Spec2Model ----
(***************************************************************************)
(* rc_string (src/src/quick-lint-js/rc-string.h): a one-word string handle *)
(* that is either a tagged pointer to a foreign C string or a pointer into *)
(* a malloc'ed, reference-counted ref_counted_string_data block.           *)
(*                                                                         *)
(* Machine words are WordBits wide (the source's 64 scaled down); the bit  *)
(* operations of the source are computed bit by bit.                       *)
(***************************************************************************)
EXTENDS Integers, Sequences, FiniteSets, TLC

\* ------------------------------------------------------------------ bounds
NumHandles == 3      \* rc_string objects the client program has storage for
MaxBlocks == 1       \* calls of std::malloc the run may make
WordBits == 8        \* width of std::uintptr_t in the model

Handles == 1..NumHandles
BlockIds == 1..MaxBlocks
Byte == {0, 1}       \* char values; 0 is the null terminator

\* ------------------------------------------------------------ bit operations
WordMod == 2^WordBits
Words == 0..(WordMod - 1)

RECURSIVE BitAndN(_, _, _)
BitAndN(a, b, n) ==
  IF n = 0 THEN 0
  ELSE ((a % 2) * (b % 2)) + 2 * BitAndN(a \div 2, b \div 2, n - 1)

RECURSIVE BitOrN(_, _, _)
BitOrN(a, b, n) ==
  IF n = 0 THEN 0
  ELSE (IF (a % 2) + (b % 2) > 0 THEN 1 ELSE 0)
       + 2 * BitOrN(a \div 2, b \div 2, n - 1)

BitNot(a) == (WordMod - 1) - a

\* The right-hand operands the source uses: the mask, the bits and their
\* complements.  a & b and a | b are tabulated for these once.
MaskOperands == {2^(WordBits - 1), BitNot(2^(WordBits - 1))}
BitAndTable ==
  [b \in MaskOperands |-> [a \in Words |-> BitAndN(a, b, WordBits)]]
BitOrTable ==
  [b \in MaskOperands |-> [a \in Words |-> BitOrN(a, b, WordBits)]]

BitAnd(a, b) == BitAndTable[b][a]
BitOr(a, b) == BitOrTable[b][a]

\* -------------------------------------------------------- program constants
initial_ref_count == 0
no_ref_count_mask == 2^(WordBits - 1)
no_ref_count_bits == 2^(WordBits - 1)
\* offsetof(ref_counted_string_data, data): one int before the chars
DataOffset == 4

\* ------------------------------------------------------------ address space
\* The static zero-length string "" of encoded_empty_string.
EmptyAddr == 8
\* A C string owned by the caller: the bytes "1\0"; every pointer into it
\* is a null-terminated string ("1", "").
CStringAddr == 16
CStringBytes == <<1, 0>>
\* std::malloc hands out the regions HeapBase + k * BlockStride.
HeapBase == 32
BlockStride == 8

HeaderAddr(k) == HeapBase + (k - 1) * BlockStride
DataAddr(k) == HeaderAddr(k) + DataOffset

CStringPointers == {CStringAddr + i : i \in 0..(Len(CStringBytes) - 1)}

VARIABLES
  alive,     \* alive[h]: the rc_string object h is within its lifetime
  data_,     \* data_[h]: the member std::uintptr_t data_
  blocks,    \* blocks[k]: the k-th malloc'ed ref_counted_string_data
  failed,    \* "none", or how the process went wrong
  made_by,   \* history: the factory the value held by h came from
  last       \* history: the public operation that ran last

vars == <<alive, data_, blocks, failed, made_by, last>>

UnallocBlock == [state |-> "unalloc", ref_count |-> 0, data |-> <<>>]

\* ------------------------------------------------------------- tag encoding
\* is_ref_counted with the comparison inverted.
is_ref_counted_inverted(p) == BitAnd(p, no_ref_count_mask) = no_ref_count_bits

is_ref_counted(p) == BitAnd(p, no_ref_count_mask) # no_ref_count_bits

encode_ref_counted(p) == p

encode_not_ref_counted(p) ==
  BitOr(BitAnd(p, BitNot(no_ref_count_mask)), no_ref_count_bits)

\* decode without the final & ~no_ref_count_bits.
decode_keeping_bits(p) == BitOr(p, no_ref_count_mask)

decode(p) == BitAnd(BitOr(p, no_ref_count_mask), BitNot(no_ref_count_bits))

\* The QLJS_ASSERTs of encode_ref_counted and encode_not_ref_counted hold.
encode_ref_counted_asserts(p) == is_ref_counted(encode_ref_counted(p))
encode_not_ref_counted_asserts(p) ==
  /\ is_ref_counted(p)
  /\ ~is_ref_counted(encode_not_ref_counted(p))

\* encoded_empty_string marking "" as ref-counted.
encoded_empty_string_ref_counted == encode_ref_counted(EmptyAddr)

encoded_empty_string == encode_not_ref_counted(EmptyAddr)

\* ------------------------------------------------------------------- memory
\* The block whose header is at address a, or 0 when a is no block header.
BlockAtHeader(a) ==
  IF \E k \in BlockIds : HeaderAddr(k) = a
  THEN CHOOSE k \in BlockIds : HeaderAddr(k) = a
  ELSE 0

\* allocated_string_data(): data_ - offsetof(ref_counted_string_data, data),
\* in std::uintptr_t arithmetic.
allocated_string_data(w) == (w - DataOffset) % WordMod

\* The block whose char data starts at address a, or 0.
BlockAtData(a) == BlockAtHeader((a - DataOffset) % WordMod)

\* The bytes of memory from address a to the end of the object a points into
\* (<<>> when a points at no readable object).
MemFrom(bl, a) ==
  IF a = EmptyAddr THEN <<0>>
  ELSE IF a \in CStringPointers
    THEN SubSeq(CStringBytes, (a - CStringAddr) + 1, Len(CStringBytes))
  ELSE IF BlockAtData(a) # 0 /\ bl[BlockAtData(a)].state = "alloc"
    THEN bl[BlockAtData(a)].data
  ELSE <<>>

HasNull(bytes) == \E i \in 1..Len(bytes) : bytes[i] = 0

\* std::strlen: the number of chars before the first null.
strlen(bytes) ==
  (CHOOSE i \in 1..Len(bytes) :
     bytes[i] = 0 /\ \A j \in 1..(i - 1) : bytes[j] # 0) - 1

\* What a reader of a const char* sees: the chars up to and including the
\* first null terminator; a read that finds none runs off the object (-1).
CStr(bytes) ==
  IF HasNull(bytes) THEN SubSeq(bytes, 1, strlen(bytes) + 1)
  ELSE bytes \o <<-1>>

\* c_str(): decode(data_), and the string a caller reads through it.
c_str(w) == decode(w)
View(bl, w) == CStr(MemFrom(bl, c_str(w)))

\* ------------------------------------------------------- reference counts
\* The heap and the process status, threaded through the private helpers.
HeapState == [blocks |-> blocks, failed |-> failed]

\* checked_add of math-overflow.h on ref_count_type (int): the sum, or -1
\* for std::nullopt when it is not representable.
RefCountMax == 2147483647
checked_add(a, b) == IF a > RefCountMax - b THEN -1 ELSE a + b

\* ref_count(): the block a ref-counted word points into; 0 when
\* allocated_string_data() is not the header of a malloc'ed block.
ref_count_block(w) == BlockAtHeader(allocated_string_data(w))

\* The QLJS_ASSERT(this->is_ref_counted()) of ref_count() and of
\* allocated_string_data() holds.
ref_count_asserts(w) == is_ref_counted(w)

\* increment_ref_count adding 1 unchecked: the int wraps at its maximum.
increment_ref_count_wrapping(st, w) ==
  IF st.failed # "none" THEN st
  ELSE IF is_ref_counted(w) THEN
    LET k == ref_count_block(w) IN
    IF k = 0 THEN [st EXCEPT !.failed = "wild_access"]
    ELSE IF st.blocks[k].state # "alloc"
      THEN [st EXCEPT !.failed = "use_after_free"]
    ELSE [st EXCEPT !.blocks[k].ref_count =
            IF @ = RefCountMax THEN (0 - RefCountMax) - 1 ELSE @ + 1]
  ELSE st

increment_ref_count(st, w) ==
  IF st.failed # "none" THEN st
  ELSE IF is_ref_counted(w) THEN
    LET k == ref_count_block(w) IN
    IF ~ref_count_asserts(w) THEN [st EXCEPT !.failed = "assert"]
    ELSE IF k = 0 THEN [st EXCEPT !.failed = "wild_access"]
    ELSE IF st.blocks[k].state # "alloc"
      THEN [st EXCEPT !.failed = "use_after_free"]
    ELSE LET new_ref_count == checked_add(st.blocks[k].ref_count, 1) IN
      IF new_ref_count = -1 THEN [st EXCEPT !.failed = "assert"]
      ELSE [st EXCEPT !.blocks[k].ref_count = new_ref_count]
  ELSE st

\* decrement_ref_count without its if (this->is_ref_counted()).
decrement_ref_count_unguarded(st, w) ==
  IF st.failed # "none" THEN st
  ELSE
    LET k == ref_count_block(w) IN
    IF ~ref_count_asserts(w) THEN [st EXCEPT !.failed = "assert"]
    ELSE IF k = 0 THEN [st EXCEPT !.failed = "wild_access"]
    ELSE IF st.blocks[k].state # "alloc"
      THEN [st EXCEPT !.failed = "use_after_free"]
    ELSE IF st.blocks[k].ref_count = initial_ref_count
      THEN [st EXCEPT !.blocks[k].state = "freed"]
    ELSE [st EXCEPT !.blocks[k].ref_count = @ - 1]

decrement_ref_count(st, w) ==
  IF st.failed # "none" THEN st
  ELSE IF is_ref_counted(w) THEN
    LET k == ref_count_block(w) IN
    IF ~ref_count_asserts(w) THEN [st EXCEPT !.failed = "assert"]
    ELSE IF k = 0 THEN [st EXCEPT !.failed = "wild_access"]
    ELSE IF st.blocks[k].state # "alloc"
      THEN [st EXCEPT !.failed = "use_after_free"]
    ELSE IF st.blocks[k].ref_count = initial_ref_count
      THEN [st EXCEPT !.blocks[k].state = "freed"]
    ELSE [st EXCEPT !.blocks[k].ref_count = @ - 1]
  ELSE st

\* ------------------------------------------------------------- constructors
\* The adopting constructor storing the pointer untagged.
rc_string_adopt_tag_untagged(c_string) == c_string

\* rc_string(adopt_tag, c_string): the word stored in data_.
rc_string_adopt_tag(c_string) == encode_not_ref_counted(c_string)

\* rc_string(copy_tag, c_string): the word stored in data_ for the new
\* block's data->data.
rc_string_copy_tag(data_data) == encode_not_ref_counted(data_data)

\* size = length + 1
copy_size(length) == length + 1

\* std::memcpy handed length instead of size: the terminator is not copied.
memcpy_without_terminator(dest, src, n) ==
  [i \in 1..Len(dest) |-> IF i <= n - 1 THEN src[i] ELSE dest[i]]

\* std::memcpy(dest, src, n) into a region holding the bytes dest.
memcpy(dest, src, n) ==
  [i \in 1..Len(dest) |-> IF i <= n THEN src[i] ELSE dest[i]]

\* Pointers a caller has at hand: the caller's own string and the c_str()
\* of any live handle.
LivePointers == {c_str(data_[h]) : h \in {x \in Handles : alive[x]}}
AdoptInputs == {CStringAddr} \cup LivePointers
CopyInputs == CStringPointers \cup LivePointers

\* Objects are constructed in the first storage that holds no object.
FirstFree(h) == ~alive[h] /\ \A j \in 1..(h - 1) : alive[j]

\* The end of a constructor that calls encode_not_ref_counted(p): the word
\* is stored in data_ of the new object h, unless a QLJS_ASSERT of the
\* encoding fails first.
construct_encoded(h, p, word, how) ==
  IF encode_not_ref_counted_asserts(p)
  THEN /\ alive' = [alive EXCEPT ![h] = TRUE]
       /\ data_' = [data_ EXCEPT ![h] = word]
       /\ made_by' = [made_by EXCEPT ![h] = how]
       /\ UNCHANGED failed
  ELSE /\ failed' = "assert"
       /\ UNCHANGED <<alive, data_, made_by>>

Init ==
  /\ alive = [h \in Handles |-> FALSE]
  /\ data_ = [h \in Handles |-> 0]
  /\ blocks = [k \in BlockIds |-> UnallocBlock]
  /\ failed = "none"
  /\ made_by = [h \in Handles |-> "none"]
  /\ last = "init"

\* explicit rc_string()
default_construct(h) ==
  /\ failed = "none"
  /\ FirstFree(h)
  /\ construct_encoded(h, EmptyAddr, encoded_empty_string, "empty")
  /\ last' = "default_construct"
  /\ UNCHANGED blocks

\* h = rc_string::adopt_c_string(c_string)
adopt_c_string(h, c_string) ==
  /\ failed = "none"
  /\ FirstFree(h)
  /\ c_string \in AdoptInputs
  /\ construct_encoded(h, c_string, rc_string_adopt_tag(c_string), "adopt")
  /\ last' = "adopt_c_string"
  /\ UNCHANGED blocks

\* h = rc_string::copy_c_string(c_string); std::malloc returns the first
\* region it has not handed out, holding arbitrary bytes.
copy_c_string(h, c_string) ==
  /\ failed = "none"
  /\ FirstFree(h)
  /\ c_string \in CopyInputs
  /\ HasNull(MemFrom(blocks, c_string))
  /\ \E k \in BlockIds :
       /\ blocks[k].state = "unalloc"
       /\ \A j \in 1..(k - 1) : blocks[j].state # "unalloc"
       /\ LET src == MemFrom(blocks, c_string)
              length == strlen(src)
              size == copy_size(length)
          IN \E raw \in [1..size -> Byte] :
               blocks' = [blocks EXCEPT ![k] =
                            [state |-> "alloc",
                             ref_count |-> initial_ref_count,
                             data |-> memcpy(raw, src, size)]]
       /\ construct_encoded(h, DataAddr(k),
                            rc_string_copy_tag(DataAddr(k)), "copy")
  /\ last' = "copy_c_string"

\* h = rc_string::copy_c_string(c_string) when std::malloc returns a null
\* pointer.  The result is not tested: the placement new, data->ref_count =
\* initial_ref_count and std::memcpy go through the null pointer, which is
\* undefined.  Either the first write faults and ends the process, or the
\* writes go through and the constructor returns a handle for
\* null + offsetof(data); what runs after that is not followed further.
NullPointer == 0
NullWriteOutcomes == {"null_write_fault", "null_write_returned"}

copy_c_string_malloc_null(h, c_string) ==
  /\ failed = "none"
  /\ FirstFree(h)
  /\ c_string \in CopyInputs
  /\ HasNull(MemFrom(blocks, c_string))
  /\ \E outcome \in NullWriteOutcomes :
       /\ failed' = outcome
       /\ IF outcome = "null_write_returned"
          THEN /\ alive' = [alive EXCEPT ![h] = TRUE]
               /\ data_' = [data_ EXCEPT ![h] =
                    rc_string_copy_tag((NullPointer + DataOffset) % WordMod)]
               /\ made_by' = [made_by EXCEPT ![h] = "copy"]
          ELSE UNCHANGED <<alive, data_, made_by>>
  /\ last' = "copy_c_string_malloc_null"
  /\ UNCHANGED blocks

\* rc_string(const rc_string& other)
copy_construct(h, other) ==
  /\ failed = "none"
  /\ FirstFree(h) /\ alive[other]
  /\ LET st == increment_ref_count(HeapState, data_[other]) IN
       /\ blocks' = st.blocks
       /\ failed' = st.failed
  /\ data_' = [data_ EXCEPT ![h] = data_[other]]
  /\ alive' = [alive EXCEPT ![h] = TRUE]
  /\ made_by' = [made_by EXCEPT ![h] = made_by[other]]
  /\ last' = "copy_construct"

\* A move constructor that leaves other.data_ as it was.
move_construct_keeping_source(h, other) ==
  /\ failed = "none"
  /\ FirstFree(h) /\ alive[other]
  /\ data_' = [data_ EXCEPT ![h] = data_[other]]
  /\ alive' = [alive EXCEPT ![h] = TRUE]
  /\ made_by' = [made_by EXCEPT ![h] = made_by[other]]
  /\ last' = "move_construct"
  /\ UNCHANGED <<blocks, failed>>

\* rc_string(rc_string&& other)
move_construct(h, other) ==
  /\ failed = "none"
  /\ FirstFree(h) /\ alive[other]
  /\ LET st == increment_ref_count(HeapState, encoded_empty_string) IN
       /\ blocks' = st.blocks
       /\ failed' = st.failed
  /\ data_' = [data_ EXCEPT ![h] = data_[other],
                            ![other] = encoded_empty_string]
  /\ alive' = [alive EXCEPT ![h] = TRUE]
  /\ made_by' = [made_by EXCEPT ![h] = made_by[other], ![other] = "empty"]
  /\ last' = "move_construct"

\* operator=(const rc_string&) that also resets the word of other.
copy_assign_resetting_source(h, other) ==
  /\ failed = "none"
  /\ alive[h] /\ alive[other]
  /\ IF h # other
     THEN LET st1 == decrement_ref_count(HeapState, data_[h])
              st2 == increment_ref_count(st1, data_[other])
          IN /\ blocks' = st2.blocks
             /\ failed' = st2.failed
             /\ data_' = [data_ EXCEPT ![h] = data_[other],
                                       ![other] = encoded_empty_string]
             /\ made_by' = [made_by EXCEPT ![h] = made_by[other]]
     ELSE UNCHANGED <<blocks, failed, data_, made_by>>
  /\ last' = IF h = other THEN "self_copy_assign" ELSE "copy_assign"
  /\ UNCHANGED alive

\* operator=(const rc_string& other)
copy_assign(h, other) ==
  /\ failed = "none"
  /\ alive[h] /\ alive[other]
  /\ IF h # other
     THEN LET st1 == decrement_ref_count(HeapState, data_[h])
              st2 == increment_ref_count(st1, data_[other])
          IN /\ data_' = [data_ EXCEPT ![h] = data_[other]]
             /\ made_by' = [made_by EXCEPT ![h] = made_by[other]]
             /\ blocks' = st2.blocks
             /\ failed' = st2.failed
     ELSE UNCHANGED <<blocks, failed, data_, made_by>>
  /\ last' = IF h = other THEN "self_copy_assign" ELSE "copy_assign"
  /\ UNCHANGED alive

\* operator=(rc_string&& other)
move_assign(h, other) ==
  /\ failed = "none"
  /\ alive[h] /\ alive[other]
  /\ IF h # other
     THEN LET st1 == decrement_ref_count(HeapState, data_[h])
              st2 == increment_ref_count(st1, encoded_empty_string)
          IN /\ data_' = [data_ EXCEPT ![h] = data_[other],
                                       ![other] = encoded_empty_string]
             /\ made_by' = [made_by EXCEPT ![h] = made_by[other],
                                           ![other] = "empty"]
             /\ blocks' = st2.blocks
             /\ failed' = st2.failed
     ELSE UNCHANGED <<blocks, failed, data_, made_by>>
  /\ last' = IF h = other THEN "self_move_assign" ELSE "move_assign"
  /\ UNCHANGED alive

\* ~rc_string(); the storage of h is then outside any object's lifetime.
destroy(h) ==
  /\ failed = "none"
  /\ alive[h]
  /\ LET st == decrement_ref_count(HeapState, data_[h]) IN
       /\ blocks' = st.blocks
       /\ failed' = st.failed
  /\ alive' = [alive EXCEPT ![h] = FALSE]
  /\ data_' = [data_ EXCEPT ![h] = 0]
  /\ made_by' = [made_by EXCEPT ![h] = "none"]
  /\ last' = "destroy"

\* c_str() const: returns decode(data_) and writes nothing.
call_c_str(h) ==
  /\ failed = "none"
  /\ alive[h]
  /\ last' = "c_str"
  /\ UNCHANGED <<alive, data_, blocks, failed, made_by>>

Next ==
  \/ \E h \in Handles : default_construct(h)
  \/ \E h \in Handles : \E p \in AdoptInputs : adopt_c_string(h, p)
  \/ \E h \in Handles : \E p \in CopyInputs : copy_c_string(h, p)
  \/ \E h \in Handles : \E p \in CopyInputs :
       copy_c_string_malloc_null(h, p)
  \/ \E h \in Handles : \E other \in Handles : copy_construct(h, other)
  \/ \E h \in Handles : \E other \in Handles : move_construct(h, other)
  \/ \E h \in Handles : \E other \in Handles : copy_assign(h, other)
  \/ \E h \in Handles : \E other \in Handles : move_assign(h, other)
  \/ \E h \in Handles : destroy(h)
  \/ \E h \in Handles : call_c_str(h)

Spec == Init /\ [][Next]_vars

\* ------------------------------------------- the helpers near the int limit
\* increment_ref_count and decrement_ref_count on a block whose ref_count is
\* within OverflowWindow of the largest int: handle 1 holds a ref-counted
\* word for block 1, whose other owners are objects outside Handles.
OverflowWindow == 2

InitNearLimit ==
  /\ alive = [h \in Handles |-> h = 1]
  /\ data_ = [h \in Handles |->
                IF h = 1 THEN encode_ref_counted(DataAddr(1)) ELSE 0]
  /\ \E r \in {RefCountMax - i : i \in 0..OverflowWindow} :
       blocks = [k \in BlockIds |->
                   IF k = 1
                   THEN [state |-> "alloc", ref_count |-> r, data |-> <<1, 0>>]
                   ELSE UnallocBlock]
  /\ failed = "none"
  /\ made_by = [h \in Handles |-> IF h = 1 THEN "copy" ELSE "none"]
  /\ last = "init"

NextNearLimit ==
  \/ \E h \in Handles : default_construct(h)
  \/ \E h \in Handles : \E other \in Handles : copy_construct(h, other)
  \/ \E h \in Handles : \E other \in Handles : move_construct(h, other)
  \/ \E h \in Handles : \E other \in Handles : copy_assign(h, other)
  \/ \E h \in Handles : \E other \in Handles : move_assign(h, other)
  \/ \E h \in Handles : destroy(h)

SpecNearLimit == InitNearLimit /\ [][NextNearLimit]_vars

\* ------------------------------------------- the static encoding functions
\* encode_ref_counted and encode_not_ref_counted applied to any pointer:
\* data_[1] first holds reinterpret_cast<std::uintptr_t>(p), then the word
\* the function returns.
InitEncode ==
  /\ alive = [h \in Handles |-> FALSE]
  /\ \E p \in Words : data_ = [h \in Handles |-> IF h = 1 THEN p ELSE 0]
  /\ blocks = [k \in BlockIds |-> UnallocBlock]
  /\ failed = "none"
  /\ made_by = [h \in Handles |-> "none"]
  /\ last = "init"

apply_encode_ref_counted ==
  /\ failed = "none"
  /\ last = "init"
  /\ IF encode_ref_counted_asserts(data_[1])
     THEN /\ data_' = [data_ EXCEPT ![1] = encode_ref_counted(data_[1])]
          /\ UNCHANGED failed
     ELSE /\ failed' = "assert"
          /\ UNCHANGED data_
  /\ last' = "encode_ref_counted"
  /\ UNCHANGED <<alive, blocks, made_by>>

apply_encode_not_ref_counted ==
  /\ failed = "none"
  /\ last = "init"
  /\ IF encode_not_ref_counted_asserts(data_[1])
     THEN /\ data_' = [data_ EXCEPT ![1] = encode_not_ref_counted(data_[1])]
          /\ UNCHANGED failed
     ELSE /\ failed' = "assert"
          /\ UNCHANGED data_
  /\ last' = "encode_not_ref_counted"
  /\ UNCHANGED <<alive, blocks, made_by>>

NextEncode == apply_encode_ref_counted \/ apply_encode_not_ref_counted

SpecEncode == InitEncode /\ [][NextEncode]_vars

\* ================================================================== claims
\* The mode the specification gives a live handle: Owned when it came from
\* copy_c_string (directly, or by copy or move), Borrowed otherwise.
Owned(h) == alive[h] /\ made_by[h] = "copy"
Borrowed(h) == alive[h] /\ made_by[h] \in {"adopt", "empty"}

\* Handle h points at the chars of block k.
RefersTo(h, k) == alive[h] /\ c_str(data_[h]) = DataAddr(k)
Referents(k) == {h \in Handles : RefersTo(h, k)}
Owners(k) == {h \in Handles : Owned(h) /\ RefersTo(h, k)}

\* The step is one of the public operations named in ops.
Ran(ops) == last' \in ops
\* What every step of the named kind shows of its operands; put before the
\* action in an antecedent, these leave its meaning as it is.
Constructs(h) == ~alive[h] /\ alive'[h]
Destroys(h) == alive[h] /\ ~alive'[h]
TakesWordOf(h, o) == alive[o] /\ data_'[h] = data_[o]

\* The string before its terminator that a C-string pointer p denotes.
Content(bl, p) == SubSeq(MemFrom(bl, p), 1, strlen(MemFrom(bl, p)))

\* Release and acquisition of a block as the specification describes them
\* for a handle in Owned mode.
SpecRelease(bl, h) ==
  IF Owned(h) /\ BlockAtData(c_str(data_[h])) # 0
  THEN LET k == BlockAtData(c_str(data_[h])) IN
       IF bl[k].ref_count = 0 THEN [bl EXCEPT ![k].state = "freed"]
       ELSE [bl EXCEPT ![k].ref_count = @ - 1]
  ELSE bl

SpecAcquire(bl, h) ==
  IF Owned(h) /\ BlockAtData(c_str(data_[h])) # 0
  THEN [bl EXCEPT ![BlockAtData(c_str(data_[h]))].ref_count = @ + 1]
  ELSE bl

\* C1: copy_c_string returns a handle whose tag says ref-counted and that
\* points at a block allocated by this call with ref_count 0.
C1_CopyReturnsRefCounted ==
  [][Ran({"copy_c_string"}) =>
     \A h \in Handles : \A p \in CopyInputs :
       (Constructs(h) /\ copy_c_string(h, p)) =>
         /\ is_ref_counted(data_'[h])
         /\ \E k \in BlockIds :
              /\ blocks[k].state = "unalloc"
              /\ blocks'[k].state = "alloc"
              /\ blocks'[k].ref_count = 0
              /\ c_str(data_'[h]) = DataAddr(k)]_vars

\* C2: a block that copy_c_string allocated and that no live handle points
\* at any more has been freed.
C2_NoLeak ==
  \A k \in BlockIds :
    (blocks[k].state # "unalloc" /\ Referents(k) = {})
      => blocks[k].state = "freed"

\* C3: no read of a freed block's ref_count and no second free of it ever
\* happens, and no live handle points at a block that has been freed.
C3_NoDoubleFreeNoUseAfterFree ==
  /\ failed # "use_after_free"
  /\ \A k \in BlockIds : blocks[k].state = "freed" => Referents(k) = {}

\* C3 witness: the handles that pointed at an allocated block have all been
\* destroyed, the last of them just now.
C3_Witness ==
  /\ last = "destroy"
  /\ \E k \in BlockIds : blocks[k].state # "unalloc" /\ Referents(k) = {}
  /\ \A h \in Handles : ~alive[h]
  /\ failed = "none"

\* C4: an allocated block's ref_count is the number of live Owned handles
\* pointing at it, minus one.
C4_RefCountIsOwnersMinusOne ==
  \A k \in BlockIds :
    blocks[k].state = "alloc"
      => blocks[k].ref_count = Cardinality(Owners(k)) - 1

\* C5: destroying an Owned handle decrements a positive ref_count and leaves
\* the block and the other holders' views alone, and frees the block when
\* ref_count is 0.
C5_DestroyReleases ==
  [][Ran({"destroy"}) =>
     \A h \in Handles : \A k \in BlockIds :
       (Destroys(h) /\ Owned(h) /\ RefersTo(h, k) /\ destroy(h)) =>
         IF blocks[k].ref_count > 0
         THEN /\ blocks' = [blocks EXCEPT ![k].ref_count = @ - 1]
              /\ \A o \in Handles \ {h} :
                   alive[o] =>
                     View(blocks', data_'[o]) = View(blocks, data_[o])
         ELSE blocks'[k].state = "freed"]_vars

\* C6: adopt_c_string allocates nothing, and no operation whose operands are
\* all Borrowed handles allocates, frees or writes a ref_count (inside or
\* outside the heap).
C6_BorrowedNeverTouchesHeap ==
  [][/\ Ran({"adopt_c_string"}) =>
          \A h \in Handles : \A p \in AdoptInputs :
            adopt_c_string(h, p) => UNCHANGED <<blocks, failed>>
     /\ Ran({"destroy"}) =>
          \A h \in Handles :
            (Destroys(h) /\ Borrowed(h) /\ destroy(h))
              => UNCHANGED <<blocks, failed>>
     /\ Ran({"copy_construct"}) =>
          \A h \in Handles : \A o \in Handles :
            (Constructs(h) /\ TakesWordOf(h, o) /\ Borrowed(o)
               /\ copy_construct(h, o))
              => UNCHANGED <<blocks, failed>>
     /\ Ran({"move_construct"}) =>
          \A h \in Handles : \A o \in Handles :
            (Constructs(h) /\ TakesWordOf(h, o) /\ Borrowed(o)
               /\ move_construct(h, o))
              => UNCHANGED <<blocks, failed>>
     /\ Ran({"copy_assign"}) =>
          \A h \in Handles : \A o \in Handles \ {h} :
            (TakesWordOf(h, o) /\ Borrowed(h) /\ Borrowed(o)
               /\ copy_assign(h, o))
              => UNCHANGED <<blocks, failed>>
     /\ Ran({"move_assign"}) =>
          \A h \in Handles : \A o \in Handles \ {h} :
            (TakesWordOf(h, o) /\ Borrowed(h) /\ Borrowed(o)
               /\ move_assign(h, o))
              => UNCHANGED <<blocks, failed>>
     /\ Ran({"self_copy_assign"}) =>
          \A h \in Handles :
            (Borrowed(h) /\ copy_assign(h, h))
              => UNCHANGED <<blocks, failed>>
     /\ Ran({"self_move_assign"}) =>
          \A h \in Handles :
            (Borrowed(h) /\ move_assign(h, h))
              => UNCHANGED <<blocks, failed>>]_vars

\* C6 witness: no block was ever allocated, so every handle ever made is
\* Borrowed; one of them has just been destroyed and an adopted one lives.
C6_Witness ==
  /\ last = "destroy"
  /\ \A k \in BlockIds : blocks[k].state = "unalloc"
  /\ \E h \in Handles : alive[h] /\ made_by[h] = "adopt"
  /\ failed = "none"

\* C7: the view of copy_c_string(s) is the chars of s followed by one null
\* terminator, held in the block this call allocated and not at the
\* caller's address.
C7_CopyViewIsContent ==
  [][Ran({"copy_c_string"}) =>
     \A h \in Handles : \A p \in CopyInputs :
       (Constructs(h) /\ copy_c_string(h, p)) =>
         /\ View(blocks', data_'[h]) = Content(blocks, p) \o <<0>>
         /\ c_str(data_'[h]) # p
         /\ \E k \in BlockIds :
              /\ blocks[k].state = "unalloc"
              /\ c_str(data_'[h]) = DataAddr(k)
              /\ blocks'[k].data = Content(blocks, p) \o <<0>>]_vars

\* C7 witness: a handle just made by copy_c_string reads "1" and its
\* terminator out of a block.
C7_Witness ==
  /\ last = "copy_c_string"
  /\ \E h \in Handles : \E k \in BlockIds :
       /\ Owned(h) /\ RefersTo(h, k)
       /\ blocks[k].state = "alloc"
       /\ View(blocks, data_[h]) = <<1, 0>>

\* C8: copy construction gives the new handle the source's word and view,
\* leaves the source alone, increments the block's ref_count by one when
\* the source is Owned and changes no ref_count when it is Borrowed.
C8_CopyConstructShares ==
  [][Ran({"copy_construct"}) =>
     \A h \in Handles : \A o \in Handles :
       (Constructs(h) /\ TakesWordOf(h, o) /\ copy_construct(h, o)) =>
         /\ data_'[h] = data_[o]
         /\ data_'[o] = data_[o]
         /\ View(blocks', data_'[h]) = View(blocks', data_'[o])
         /\ blocks' = SpecAcquire(blocks, o)]_vars

\* C9: move construction hands the source's word and content to the new
\* handle, leaves the source as the empty not-ref-counted sentinel, and
\* changes no block.
C9_MoveConstructTransfers ==
  [][Ran({"move_construct"}) =>
     \A h \in Handles : \A o \in Handles :
       (Constructs(h) /\ move_construct(h, o)) =>
         /\ data_'[h] = data_[o]
         /\ View(blocks', data_'[h]) = View(blocks, data_[o])
         /\ data_'[o] = encoded_empty_string
         /\ ~is_ref_counted(data_'[o])
         /\ View(blocks', data_'[o]) = <<0>>
         /\ UNCHANGED <<blocks, failed>>]_vars

\* C9 witness: a move construction has just run; its source is the empty
\* sentinel and another handle holds the non-empty content of a block.
C9_Witness ==
  /\ last = "move_construct"
  /\ \E h \in Handles : \E o \in Handles : \E k \in BlockIds :
       /\ h # o
       /\ Owned(h) /\ RefersTo(h, k)
       /\ View(blocks, data_[h]) = <<1, 0>>
       /\ alive[o] /\ data_[o] = encoded_empty_string

\* C10: copy assignment between distinct handles releases the destination's
\* old block (freeing it when the destination was its only owner), takes
\* the source's word and acquires the source's block; assigning a handle to
\* itself changes nothing.
C10_CopyAssignReleasesThenAcquires ==
  [][/\ Ran({"copy_assign"}) =>
          \A h \in Handles : \A o \in Handles \ {h} :
            (TakesWordOf(h, o) /\ copy_assign(h, o)) =>
              /\ data_'[h] = data_[o]
              /\ blocks' = SpecAcquire(SpecRelease(blocks, h), o)
     /\ Ran({"self_copy_assign"}) =>
          \A h \in Handles :
            copy_assign(h, h) => UNCHANGED <<data_, blocks, failed>>]_vars

\* C11: move assignment between distinct handles releases the destination's
\* old block as copy assignment does, hands the source's word to the
\* destination and leaves the source as the empty sentinel, with no other
\* change of a ref_count; moving a handle into itself changes nothing.
C11_MoveAssignReleasesThenTransfers ==
  [][/\ Ran({"move_assign"}) =>
          \A h \in Handles : \A o \in Handles \ {h} :
            (TakesWordOf(h, o) /\ move_assign(h, o)) =>
              /\ data_'[h] = data_[o]
              /\ data_'[o] = encoded_empty_string
              /\ blocks' = SpecRelease(blocks, h)
     /\ Ran({"self_move_assign"}) =>
          \A h \in Handles :
            move_assign(h, h) => UNCHANGED <<data_, blocks, failed>>]_vars

\* The ref_count of every allocated block is an int that is not negative.
RefCountInRange(bl) ==
  \A k \in BlockIds :
    bl[k].state = "alloc"
      => bl[k].ref_count >= 0 /\ bl[k].ref_count <= RefCountMax

C13_AllocFailureIsFatal ==
  [][Ran({"copy_c_string_malloc_null"}) =>
     \A h \in Handles : \A p \in CopyInputs :
       (FirstFree(h) /\ copy_c_string_malloc_null(h, p)) =>
         /\ failed' # "none"
         /\ failed' \notin NullWriteOutcomes
         /\ ~alive'[h]
         /\ UNCHANGED blocks]_vars

\* A handle holding the value of a default-constructed rc_string.
IsDefault(h) == alive[h] /\ made_by[h] = "empty"

\* C14: a default-constructed handle is not ref-counted and reads as the
\* empty string; constructing, copying, moving from and destroying it
\* allocates nothing, frees nothing and changes no ref_count.
C14_DefaultIsEmptyBorrowed ==
  /\ \A h \in Handles : ~IsDefault(h)
  /\ [][/\ \A h \in Handles :
             (alive'[h] /\ made_by'[h] = "empty") =>
               /\ ~is_ref_counted(data_'[h])
               /\ View(blocks', data_'[h]) = <<0>>
        /\ Ran({"default_construct"}) =>
             \A h \in Handles :
               (Constructs(h) /\ default_construct(h)) =>
                 /\ ~is_ref_counted(data_'[h])
                 /\ View(blocks', data_'[h]) = <<0>>
                 /\ UNCHANGED <<blocks, failed>>
        /\ Ran({"destroy"}) =>
             \A h \in Handles :
               (Destroys(h) /\ IsDefault(h) /\ destroy(h))
                 => UNCHANGED <<blocks, failed>>
        /\ Ran({"copy_construct"}) =>
             \A h \in Handles : \A o \in Handles :
               (Constructs(h) /\ IsDefault(o) /\ copy_construct(h, o)) =>
                 /\ View(blocks', data_'[h]) = <<0>>
                 /\ View(blocks', data_'[o]) = <<0>>
                 /\ UNCHANGED <<blocks, failed>>
        /\ Ran({"move_construct"}) =>
             \A h \in Handles : \A o \in Handles :
               (Constructs(h) /\ IsDefault(o) /\ move_construct(h, o)) =>
                 /\ View(blocks', data_'[h]) = <<0>>
                 /\ View(blocks', data_'[o]) = <<0>>
                 /\ UNCHANGED <<blocks, failed>>]_vars

\* C14 witness: a block is allocated, and the only two live handles are a
\* default-valued handle and the copy just constructed from it.
C14_Witness ==
  /\ last = "copy_construct"
  /\ failed = "none"
  /\ \E k \in BlockIds : blocks[k].state = "alloc"
  /\ Cardinality({h \in Handles : alive[h]}) = 2
  /\ \A h \in Handles : alive[h] => IsDefault(h)

\* The most-significant bit of the word p is clear.
TopBitClear(p) == p < 2^(WordBits - 1)

\* C15: for every pointer p whose most-significant bit is clear, both
\* encodings decode to p again; the word of encode_not_ref_counted is not
\* ref-counted and the word of encode_ref_counted is.
C15_EncodingIsReversible ==
  [][/\ (Ran({"encode_not_ref_counted"}) /\ TopBitClear(data_[1])) =>
          /\ failed' = "none"
          /\ decode(data_'[1]) = data_[1]
          /\ ~is_ref_counted(data_'[1])
     /\ (Ran({"encode_ref_counted"}) /\ TopBitClear(data_[1])) =>
          /\ failed' = "none"
          /\ decode(data_'[1]) = data_[1]
          /\ is_ref_counted(data_'[1])]_vars

\* C15 witness: encode_not_ref_counted has returned a word that differs
\* from the pointer it was given and decodes to it.
C15_Witness ==
  /\ last = "encode_not_ref_counted"
  /\ failed = "none"
  /\ data_[1] # CStringAddr
  /\ decode(data_[1]) = CStringAddr

\* C16: assignment between two distinct Owned handles that refer to the same
\* block keeps the block allocated and the destination's view; copy
\* assignment leaves the block's ref_count as it was, move assignment lowers
\* it by exactly one and leaves the source with the empty view.
C16_AssignBetweenSharersKeepsBlock ==
  [][/\ Ran({"copy_assign"}) =>
          \A a \in Handles : \A b \in Handles \ {a} : \A k \in BlockIds :
            (/\ Owned(a) /\ Owned(b)
             /\ RefersTo(a, k) /\ RefersTo(b, k)
             /\ copy_assign(a, b)) =>
              /\ blocks'[k].state = "alloc"
              /\ blocks'[k].ref_count = blocks[k].ref_count
              /\ View(blocks', data_'[a]) = View(blocks, data_[a])
     /\ Ran({"move_assign"}) =>
          \A a \in Handles : \A b \in Handles \ {a} : \A k \in BlockIds :
            (/\ Owned(a) /\ Owned(b)
             /\ RefersTo(a, k) /\ RefersTo(b, k)
             /\ move_assign(a, b)) =>
              /\ blocks'[k].state = "alloc"
              /\ blocks'[k].ref_count = blocks[k].ref_count - 1
              /\ View(blocks', data_'[a]) = View(blocks, data_[a])
              /\ View(blocks', data_'[b]) = <<0>>]_vars

\* Every handle outside dests keeps its word and its lifetime, and every
\* block that changes is one that a handle of operands referred to before
\* the step.
FrameHolds(dests, operands) ==
  /\ \A x \in Handles :
       x \in dests \/ (data_'[x] = data_[x] /\ alive'[x] = alive[x])
  /\ \A k \in BlockIds :
       blocks'[k] = blocks[k] \/ \E x \in operands : RefersTo(x, k)

\* C17: copy and move construction, copy and move assignment and
\* destruction change only blocks that their operands referred to before the
\* step and only the word of the destination or of the moved-from source;
\* every other block and handle is as it was, and c_str() changes nothing.
C17_Frame ==
  [][/\ Ran({"copy_construct"}) =>
          \A h \in Handles : \A o \in Handles \ {h} :
            (Constructs(h) /\ TakesWordOf(h, o) /\ copy_construct(h, o))
              => FrameHolds({h}, {o})
     /\ Ran({"move_construct"}) =>
          \A h \in Handles : \A o \in Handles \ {h} :
            (Constructs(h) /\ TakesWordOf(h, o) /\ move_construct(h, o))
              => FrameHolds({h, o}, {o})
     /\ Ran({"copy_assign"}) =>
          \A h \in Handles : \A o \in Handles \ {h} :
            (TakesWordOf(h, o) /\ copy_assign(h, o))
              => FrameHolds({h}, {h, o})
     /\ Ran({"move_assign"}) =>
          \A h \in Handles : \A o \in Handles \ {h} :
            (TakesWordOf(h, o) /\ move_assign(h, o))
              => FrameHolds({h, o}, {h, o})
     /\ Ran({"self_copy_assign"}) =>
          \A h \in Handles : copy_assign(h, h) => FrameHolds({}, {h})
     /\ Ran({"self_move_assign"}) =>
          \A h \in Handles : move_assign(h, h) => FrameHolds({}, {h})
     /\ Ran({"destroy"}) =>
          \A h \in Handles :
            (Destroys(h) /\ destroy(h)) => FrameHolds({h}, {h})
     /\ Ran({"c_str"}) =>
          UNCHANGED <<alive, data_, blocks, failed, made_by>>]_vars

\* C17 witness: a move assignment has run between an adopted and an empty
\* handle while a third handle alone refers to an allocated block.
C17_Witness ==
  /\ last = "move_assign"
  /\ failed = "none"
  /\ \A h \in Handles : alive[h]
  /\ \E k \in BlockIds :
       blocks[k].state = "alloc" /\ Cardinality(Referents(k)) = 1
  /\ \E h \in Handles : data_[h] = rc_string_adopt_tag(CStringAddr)
  /\ \E h \in Handles : data_[h] = encoded_empty_string

\* C18: with every adopted or copied-from pointer having its top bit clear
\* and every ref_count below RefCountMax, no QLJS_ASSERT fails:
\* encode_not_ref_counted passes its assertions for every pointer the
\* constructors hand it and yields a word that is not ref-counted, and for
\* a live handle whose word is not ref-counted increment_ref_count and
\* decrement_ref_count return before ref_count().
C18_NoAssertFails ==
  /\ failed # "assert"
  /\ \A p \in AdoptInputs \cup CopyInputs : TopBitClear(p)
  /\ \A p \in AdoptInputs \cup {EmptyAddr} \cup {DataAddr(k) : k \in BlockIds} :
       /\ encode_not_ref_counted_asserts(p)
       /\ ~is_ref_counted(encode_not_ref_counted(p))
  /\ \A h \in Handles :
       alive[h] =>
         /\ increment_ref_count(HeapState, data_[h]).failed # "assert"
         /\ decrement_ref_count(HeapState, data_[h]).failed # "assert"
         /\ ~is_ref_counted(data_[h]) =>
              /\ increment_ref_count(HeapState, data_[h]) = HeapState
              /\ decrement_ref_count(HeapState, data_[h]) = HeapState

\* C18 witness: a copy assignment has run both helpers while an adopted
\* and a copied handle are alive.
C18_Witness ==
  /\ last = "copy_assign"
  /\ failed = "none"
  /\ \E h \in Handles : alive[h] /\ made_by[h] = "adopt"
  /\ \E h \in Handles : alive[h] /\ made_by[h] = "copy"

====
